---- MODULE Spec2Model ----
(***************************************************************************)
(* A model of mls::List<T, Allocator> (src/List.hpp): a circular doubly    *)
(* linked list around a sentinel node (fake_node_) embedded in each List   *)
(* object, with a size counter sz_ and nodes obtained from an allocator.   *)
(*                                                                         *)
(* Memory is a set of addresses: one per sentinel and one per node the     *)
(* allocator can hand out.  Every operation of the class is a pure         *)
(* operator from heap to heap that follows the statements of its code, and *)
(* an action that commits the result.  An operation that executes          *)
(* undefined behaviour (it touches storage that is not live, or hands the  *)
(* allocator an address it did not allocate) leaves the program in the     *)
(* state "ub", about which the model says nothing further; an operation    *)
(* whose loop never ends leaves it in the state "hang".                    *)
(***************************************************************************)
EXTENDS Integers, Sequences, FiniteSets, TLC

\* ------------------------------------------------------------- bounds
MaxNodes == 3        \* node addresses the allocator can hand out
MaxVal == 2          \* element values are 1..MaxVal
MaxUnder == 0        \* how far below zero sz_ may wrap

\* ------------------------------------------------------------- memory
Null == 0                          \* nullptr
Lists == {1, 2}                    \* the List objects of the program
Nodes == 1..MaxNodes               \* addresses of allocator nodes
Vals == 1..MaxVal                  \* values of T stored by the caller
Sent(l) == 0 - l                   \* &fake_node_ of list l
Sentinels == {Sent(l) : l \in Lists}
Addr == Nodes \cup Sentinels
NoList == Null                     \* "no second list" in the record of an action
SentinelData == 0                  \* fake_node_(0)

VARIABLES
    next,      \* next_ of every address
    prev,      \* prev_ of every address
    data,      \* data_ of every address
    live,      \* the nodes allocated and not yet deallocated
    sz,        \* sz_ of every list; a negative n stands for the size_t 2^64 + n
    alive,     \* the List objects constructed and not yet destroyed
    status,    \* "ok", "ub" (undefined behaviour was executed), "badfree" (the
               \* undefined behaviour was obj_destruct of what is not a live node
               \* of the allocator) or "hang" (a loop that never ends)
    last       \* the operation that produced this state

heap == <<next, prev, data, live, sz, alive>>
vars == <<next, prev, data, live, sz, alive, status, last>>

\* The variables as one heap record; ub/hang/oom are set while an operation
\* runs, badfree when the first undefined behaviour of the run is an
\* obj_destruct, nullfree when obj_destruct was given a null pointer.
H == [next |-> next, prev |-> prev, data |-> data, live |-> live, sz |-> sz,
      alive |-> alive, ub |-> FALSE, hang |-> FALSE, oom |-> FALSE,
      badfree |-> FALSE, nullfree |-> FALSE]

\* x is storage that may be read and written: a live node or a live sentinel.
Valid(h, x) == x \in h.live \/ (\E l \in h.alive : x = Sent(l))

\* node->next_ and node->prev_ as the code reads them.
Nx(h, x) == IF x \in Addr THEN h.next[x] ELSE Null
Pv(h, x) == IF x \in Addr THEN h.prev[x] ELSE Null
Dt(h, x) == IF x \in Addr THEN h.data[x] ELSE SentinelData

\* A read of x: undefined behaviour unless x is valid storage.
Touch(h, x) == IF Valid(h, x) THEN h ELSE [h EXCEPT !.ub = TRUE]

\* x->next_ = v and x->prev_ = v.
SetNext(h, x, v) == IF Valid(h, x) THEN [h EXCEPT !.next[x] = v] ELSE [h EXCEPT !.ub = TRUE]
SetPrev(h, x, v) == IF Valid(h, x) THEN [h EXCEPT !.prev[x] = v] ELSE [h EXCEPT !.ub = TRUE]

\* size_t arithmetic on the representative of sz_ (see sz above).
SzAdd(a, b) == a + b
SzLess2(a) == a \in {0, 1}         \* sz_ < 2, unsigned
SzInRange(s) == \A l \in Lists : s[l] >= 0 - MaxUnder

\* ---------------------------------------------------- private helpers
\* node_alloc_.allocate(1) returns the lowest free address; construct sets the
\* fields as List_Node(U&& el) does.  With no free address the bound of the
\* model is reached (oom): the action is then not taken.
FreeNode(h) == CHOOSE n \in Nodes \ h.live : \A m \in Nodes \ h.live : n <= m

obj_construct(h, el) ==
    IF Nodes \ h.live = {} THEN [h |-> [h EXCEPT !.oom = TRUE], node |-> Null]
    ELSE LET n == FreeNode(h)
         IN [h |-> [h EXCEPT !.live = @ \cup {n}, !.data[n] = el,
                              !.next[n] = Null, !.prev[n] = Null],
             node |-> n]

\* The two ways obj_construct throws: allocate(1) throws, or allocate(1) gives
\* a node and construct throws (the constructor of T).  obj_construct has no
\* handler, so in the second the node stays allocated and no pointer to it is
\* returned.
Failures == {"allocate", "construct"}
obj_construct_throws(h, el, how) ==
    IF how = "allocate" THEN h
    ELSE IF Nodes \ h.live = {} THEN [h EXCEPT !.oom = TRUE]
    ELSE [h EXCEPT !.live = @ \cup {FreeNode(h)}]

\* node_alloc_.destroy + deallocate: defined only on a node the allocator gave.
\* The storage of a freed node is never read again without undefined behaviour,
\* so its fields are reset.  On a null pointer destroy runs a destructor on no
\* object: undefined, and in the builds where it does nothing the call goes on
\* (see Outcomes).
obj_destruct(h, del_node) ==
    IF del_node \in h.live
    THEN [h EXCEPT !.live = @ \ {del_node}, !.data[del_node] = SentinelData,
                   !.next[del_node] = Null, !.prev[del_node] = Null]
    ELSE IF del_node = Null /\ ~h.ub THEN [h EXCEPT !.nullfree = TRUE]
    ELSE [h EXCEPT !.ub = TRUE, !.badfree = @ \/ ~h.ub]

insert_node(h, old_node, new_node) ==
    LET h1 == SetNext(h, new_node, old_node)
        h2 == SetPrev(Touch(h1, old_node), new_node, Pv(h1, old_node))
        h3 == SetNext(h2, Pv(h2, old_node), new_node)
        h4 == SetPrev(h3, old_node, new_node)
    IN  h4

\* ------------------------------------------------------ public members
\* List(): fake_node_(0), links to itself, sz_(0).
List_ctor(h, l) ==
    LET S == Sent(l)
    IN  [h EXCEPT !.alive = @ \cup {l}, !.data[S] = SentinelData,
                  !.next[S] = S, !.prev[S] = S, !.sz[l] = 0]

RECURSIVE clear_loop(_, _, _)
clear_loop(h, l, fuel) ==
    LET S == Sent(l)
        del_node == Nx(h, S)
    IN  IF h.ub \/ del_node = S THEN h
        ELSE IF fuel = 0 THEN [h EXCEPT !.hang = TRUE]
        ELSE LET h1 == SetNext(Touch(h, del_node), S, Nx(h, del_node))
                 h2 == obj_destruct(h1, del_node)
             IN  clear_loop(h2, l, fuel - 1)

\* Every pass of clear's loop frees a live node or is undefined, so
\* MaxNodes + 1 passes are enough.
clear(h, l) ==
    LET h1 == clear_loop(h, l, MaxNodes + 1)
    IN  IF h1.ub \/ h1.hang THEN h1
        ELSE [SetPrev(h1, Sent(l), Sent(l)) EXCEPT !.sz[l] = 0]

\* push_front splicing before end() instead of before begin().
push_front_at_end(h, l, el) ==
    LET c == obj_construct(h, el)
        h1 == insert_node(c.h, Sent(l), c.node)
    IN  IF c.h.oom THEN c.h ELSE [h1 EXCEPT !.sz[l] = SzAdd(@, 1)]

push_front(h, l, el) ==
    LET c == obj_construct(h, el)
        h1 == insert_node(c.h, Nx(c.h, Sent(l)), c.node)
    IN  IF c.h.oom THEN c.h ELSE [h1 EXCEPT !.sz[l] = SzAdd(@, 1)]

push_back(h, l, el) ==
    LET c == obj_construct(h, el)
        h1 == insert_node(c.h, Sent(l), c.node)
    IN  IF c.h.oom THEN c.h ELSE [h1 EXCEPT !.sz[l] = SzAdd(@, 1)]

pop_front(h, l) ==
    LET S == Sent(l)
        del_node == Nx(h, S)
        h1 == SetNext(Touch(h, del_node), S, Nx(h, del_node))
        h2 == SetPrev(h1, Nx(h1, del_node), S)
        h3 == obj_destruct(h2, del_node)
    IN  [h3 EXCEPT !.sz[l] = SzAdd(@, 0 - 1)]

pop_back(h, l) ==
    LET S == Sent(l)
        del_node == Pv(h, S)
        h1 == SetPrev(Touch(h, del_node), S, Pv(h, del_node))
        h2 == SetNext(h1, Pv(h1, del_node), S)
        h3 == obj_destruct(h2, del_node)
    IN  [h3 EXCEPT !.sz[l] = SzAdd(@, 0 - 1)]

\* insert splicing the new node before the successor of it.node_.
insert_after(h, l, it, el) ==
    LET c == obj_construct(h, el)
        h1 == insert_node(c.h, Nx(c.h, it), c.node)
    IN  IF c.h.oom THEN c.h ELSE [h1 EXCEPT !.sz[l] = SzAdd(@, 1)]

\* insert(it, el): the new node goes before it.node_.
insert(h, l, it, el) ==
    LET c == obj_construct(h, el)
        h1 == insert_node(c.h, it, c.node)
    IN  IF c.h.oom THEN c.h ELSE [h1 EXCEPT !.sz[l] = SzAdd(@, 1)]

\* The node of the iterator that insert returns.
insert_ret(h, l, it, el) == obj_construct(h, el).node

\* push_front, push_back and insert when obj_construct throws: new_node is
\* still nullptr in the handler, which calls obj_destruct(new_node) and throws
\* std::bad_alloc.
push_front_throws(h, l, el, how) == obj_destruct(obj_construct_throws(h, el, how), Null)
push_back_throws(h, l, el, how) == obj_destruct(obj_construct_throws(h, el, how), Null)
insert_throws(h, l, it, el, how) == obj_destruct(obj_construct_throws(h, el, how), Null)

\* erase without line 259, which sets the successor's prev_.
erase_keep_prev(h, l, it) ==
    LET del_node == it
        h1 == SetNext(Touch(h, it), Pv(h, it), Nx(h, del_node))
        h3 == obj_destruct(h1, del_node)
    IN  [h3 EXCEPT !.sz[l] = SzAdd(@, 0 - 1)]

erase(h, l, it) ==
    LET del_node == it
        h1 == SetNext(Touch(h, it), Pv(h, it), Nx(h, del_node))
        h2 == SetPrev(h1, Nx(h1, del_node), Pv(h1, del_node))
        h3 == obj_destruct(h2, del_node)
    IN  [h3 EXCEPT !.sz[l] = SzAdd(@, 0 - 1)]

\* operator=(const List&): clear(), then push_back of every element of the source.
\* Every pass allocates a node, so the loop ends or meets the bound on nodes.
RECURSIVE copy_loop(_, _, _, _)
copy_loop(h, l, m, it) ==
    IF h.ub \/ h.oom \/ it = Sent(m) THEN h
    ELSE LET h1 == push_back(Touch(h, it), l, Dt(h, it))
         IN  copy_loop(h1, l, m, Nx(h1, it))

\* operator= taking over the source's nodes instead of copying them.
copy_assign_shallow(h, l, m) ==
    LET h1 == clear(h, l)
        h2 == SetPrev(SetNext(h1, Sent(l), Nx(h1, Sent(m))), Sent(l), Pv(h1, Sent(m)))
    IN  IF h1.ub \/ h1.hang THEN h1 ELSE [h2 EXCEPT !.sz[l] = h2.sz[m]]

copy_assign(h, l, m) ==
    LET h1 == clear(h, l)
    IN  IF h1.ub \/ h1.hang THEN h1 ELSE copy_loop(h1, l, m, Nx(h1, Sent(m)))

\* operator=(List&&).
move_assign(h, l, m) ==
    LET S == Sent(l)
        M == Sent(m)
        h0 == clear(h, l)
        h1 == SetNext(h0, S, Nx(h0, M))
        h2 == SetPrev(h1, S, Pv(h1, M))
        h3 == SetPrev(h2, Nx(h2, S), S)
        h4 == SetNext(h3, Pv(h3, S), S)
        h5 == SetNext(h4, M, M)
        h6 == SetPrev(h5, M, M)
        h7 == [h6 EXCEPT !.sz[l] = h6.sz[m]]
        h8 == [h7 EXCEPT !.sz[m] = 0]
    IN  IF h0.ub \/ h0.hang THEN h0 ELSE h8

\* List(const List&) and List(List&&): List(), then the assignment.
List_copy_ctor(h, l, m) == copy_assign(List_ctor(h, l), l, m)
List_move_ctor(h, l, m) == move_assign(List_ctor(h, l), l, m)

\* The loop of merge(List&) splicing every copy before begin() instead of end().
RECURSIVE merge_loop_at_begin(_, _, _, _)
merge_loop_at_begin(h, l, m, it) ==
    IF h.ub \/ h.oom \/ it = Sent(m) THEN h
    ELSE LET c == obj_construct(Touch(h, it), Dt(h, it))
             h1 == insert_node(c.h, Nx(c.h, Sent(l)), c.node)
         IN  IF c.h.oom THEN c.h ELSE merge_loop_at_begin(h1, l, m, Nx(h1, it))

\* merge(List& other): the loop appends a copy of every element of other.
RECURSIVE merge_loop(_, _, _, _)
merge_loop(h, l, m, it) ==
    IF h.ub \/ h.oom \/ it = Sent(m) THEN h
    ELSE LET c == obj_construct(Touch(h, it), Dt(h, it))
             h1 == insert_node(c.h, Sent(l), c.node)
         IN  IF c.h.oom THEN c.h ELSE merge_loop(h1, l, m, Nx(h1, it))

merge_copy(h, l, m) ==
    IF l = m THEN h ELSE merge_loop(h, l, m, Nx(h, Sent(m)))

\* merge(List& other) when obj_construct throws in the k-th pass of the loop:
\* new_node, declared before the loop, still holds the node of the pass before
\* (nullptr in the first pass) when the handler calls obj_destruct(new_node).
RECURSIVE merge_loop_throws(_, _, _, _, _, _, _)
merge_loop_throws(h, l, m, it, new_node, k, how) ==
    IF h.ub \/ h.oom \/ it = Sent(m) THEN h
    ELSE IF k = 1
    THEN obj_destruct(obj_construct_throws(Touch(h, it), Dt(h, it), how), new_node)
    ELSE LET c == obj_construct(Touch(h, it), Dt(h, it))
             h1 == insert_node(c.h, Sent(l), c.node)
         IN  IF c.h.oom THEN c.h
             ELSE merge_loop_throws(h1, l, m, Nx(h1, it), c.node, k - 1, how)

merge_copy_throws(h, l, m, k, how) ==
    IF l = m THEN h ELSE merge_loop_throws(h, l, m, Nx(h, Sent(m)), Null, k, how)

\* merge(List&&) without line 291, which closes the ring at the new tail.
merge_move_open_tail(h, l, m) ==
    LET S == Sent(l)
        M == Sent(m)
        h1 == SetNext(h, Pv(h, S), Nx(h, M))
        h2 == SetPrev(h1, Nx(h1, M), Pv(h1, S))
        h3 == SetPrev(h2, S, Pv(h2, M))
        h5 == SetNext(h3, M, M)
        h6 == SetPrev(h5, M, M)
        h7 == [h6 EXCEPT !.sz[l] = SzAdd(@, h6.sz[m])]
        h8 == [h7 EXCEPT !.sz[m] = 0]
    IN  IF l = m THEN h ELSE h8

\* merge(List&& other).
merge_move(h, l, m) ==
    LET S == Sent(l)
        M == Sent(m)
        h1 == SetNext(h, Pv(h, S), Nx(h, M))
        h2 == SetPrev(h1, Nx(h1, M), Pv(h1, S))
        h3 == SetPrev(h2, S, Pv(h2, M))
        h4 == SetNext(h3, Pv(h3, S), S)
        h5 == SetNext(h4, M, M)
        h6 == SetPrev(h5, M, M)
        h7 == [h6 EXCEPT !.sz[l] = SzAdd(@, h6.sz[m])]
        h8 == [h7 EXCEPT !.sz[m] = 0]
    IN  IF l = m THEN h ELSE h8

\* swap(List& other): three std::swap calls.
swap(h, l, m) ==
    LET S == Sent(l)
        M == Sent(m)
        h1 == SetNext(SetNext(h, S, Nx(h, M)), M, Nx(h, S))
        h2 == SetPrev(SetPrev(h1, S, Pv(h1, M)), M, Pv(h1, S))
        h3 == [h2 EXCEPT !.sz[l] = h2.sz[m], !.sz[m] = h2.sz[l]]
    IN  IF l = m THEN h ELSE h3

\* The first lambda of sort taking equal elements as out of order.
lamb_or_equal(ascending, a, b) == IF ascending THEN a <= b ELSE a >= b

\* The two comparison lambdas of sort.
lamb(ascending, a, b) == IF ascending THEN a < b ELSE a > b
lamb_t(ascending, a, b) == IF ascending THEN a <= b ELSE a >= b

\* The inner loop of sort: walks it_j backwards from it_i's predecessor to the
\* first place where *it_i belongs.  It only reads, so a walk of more than
\* |Addr| + 1 steps that has not met end() never will.
RECURSIVE sort_inner(_, _, _, _, _, _)
sort_inner(h, l, ascending, it_i, it_j, fuel) ==
    IF it_j = Sent(l) THEN [found |-> FALSE, j |-> it_j, ub |-> FALSE, hang |-> FALSE]
    ELSE IF ~Valid(h, it_j) \/ ~Valid(h, it_i)
    THEN [found |-> FALSE, j |-> it_j, ub |-> TRUE, hang |-> FALSE]
    ELSE IF fuel = 0 THEN [found |-> FALSE, j |-> it_j, ub |-> FALSE, hang |-> TRUE]
    ELSE LET it_next == Pv(h, it_j)
         IN  IF lamb(ascending, Dt(h, it_i), Dt(h, it_j))
             THEN IF it_next = Sent(l)
                  THEN [found |-> TRUE, j |-> it_j, ub |-> FALSE, hang |-> FALSE]
                  ELSE IF ~Valid(h, it_next)
                  THEN [found |-> FALSE, j |-> it_j, ub |-> TRUE, hang |-> FALSE]
                  ELSE IF lamb_t(ascending, Dt(h, it_next), Dt(h, it_i))
                  THEN [found |-> TRUE, j |-> it_j, ub |-> FALSE, hang |-> FALSE]
                  ELSE sort_inner(h, l, ascending, it_i, it_next, fuel - 1)
             ELSE sort_inner(h, l, ascending, it_i, it_next, fuel - 1)

\* The outer loop of sort.  seen holds the (it_i, links) the loop head has been
\* at: the loop is deterministic, so meeting one again means it never ends.
RECURSIVE sort_outer(_, _, _, _, _)
sort_outer(h, l, ascending, it_i, seen) ==
    IF h.ub \/ it_i = Sent(l) THEN h
    ELSE IF <<it_i, h.next, h.prev>> \in seen THEN [h EXCEPT !.hang = TRUE]
    ELSE IF ~Valid(h, it_i) THEN [h EXCEPT !.ub = TRUE]
    ELSE LET r == sort_inner(h, l, ascending, it_i, Pv(h, it_i), Cardinality(Addr) + 1)
             now == seen \cup {<<it_i, h.next, h.prev>>}
         IN  IF r.ub THEN [h EXCEPT !.ub = TRUE]
             ELSE IF r.hang THEN [h EXCEPT !.hang = TRUE]
             ELSE IF r.found
             THEN LET it_s == Nx(h, it_i)
                      h1 == SetPrev(h, Nx(h, it_i), Pv(h, it_i))
                      h2 == SetNext(h1, Pv(h1, it_i), Nx(h1, it_i))
                      h3 == insert_node(h2, r.j, it_i)
                  IN  sort_outer(h3, l, ascending, it_s, now)
             ELSE sort_outer(h, l, ascending, Nx(h, it_i), now)

sort(h, l, ascending) ==
    LET begin == Nx(h, Sent(l))
    IN  IF SzLess2(h.sz[l]) THEN h
        ELSE sort_outer(Touch(h, begin), l, ascending, Nx(h, begin), {})

\* The loop of reverse stepping with ++it: after the swap that is the old prev_.
RECURSIVE reverse_loop_forward(_, _, _, _)
reverse_loop_forward(h, l, it, seen) ==
    IF h.ub \/ it = Sent(l) THEN h
    ELSE IF <<it, h.next, h.prev>> \in seen THEN [h EXCEPT !.hang = TRUE]
    ELSE LET h1 == SetPrev(SetNext(h, it, Pv(h, it)), it, Nx(h, it))
         IN  reverse_loop_forward(h1, l, Nx(h1, it), seen \cup {<<it, h.next, h.prev>>})

\* reverse(): the loop swaps the links of every node, stepping with --it (the
\* old next_), then the sentinel's links are swapped.
RECURSIVE reverse_loop(_, _, _, _)
reverse_loop(h, l, it, seen) ==
    IF h.ub \/ it = Sent(l) THEN h
    ELSE IF <<it, h.next, h.prev>> \in seen THEN [h EXCEPT !.hang = TRUE]
    ELSE LET h1 == SetPrev(SetNext(h, it, Pv(h, it)), it, Nx(h, it))
         IN  reverse_loop(h1, l, Pv(h1, it), seen \cup {<<it, h.next, h.prev>>})

reverse(h, l) ==
    LET S == Sent(l)
        h1 == reverse_loop(h, l, Nx(h, S), {})
    IN  IF h1.ub \/ h1.hang THEN h1
        ELSE SetPrev(SetNext(h1, S, Pv(h1, S)), S, Nx(h1, S))

\* ~List(): clear(); the List object and its sentinel then cease to exist.
List_dtor(h, l) ==
    LET h1 == clear(h, l)
        S == Sent(l)
    IN  IF h1.ub \/ h1.hang THEN h1
        ELSE [h1 EXCEPT !.alive = @ \ {l}, !.next[S] = Null, !.prev[S] = Null]

\* ------------------------------------------------------------ iteration
\* The addresses ++ visits from begin() until it meets end(): ok is FALSE when
\* the walk never meets end() or leaves valid storage.
RECURSIVE walk(_, _, _, _)
walk(h, l, it, acc) ==
    IF it = Sent(l) THEN [ok |-> TRUE, nodes |-> acc]
    ELSE IF ~Valid(h, it) \/ (\E i \in 1..Len(acc) : acc[i] = it)
    THEN [ok |-> FALSE, nodes |-> acc]
    ELSE walk(h, l, Nx(h, it), Append(acc, it))

Walk(h, l) == walk(h, l, Nx(h, Sent(l)), <<>>)

\* The addresses -- visits from end() until it comes back to end().
RECURSIVE walk_back(_, _, _, _)
walk_back(h, l, it, acc) ==
    IF it = Sent(l) THEN [ok |-> TRUE, nodes |-> acc]
    ELSE IF ~Valid(h, it) \/ (\E i \in 1..Len(acc) : acc[i] = it)
    THEN [ok |-> FALSE, nodes |-> acc]
    ELSE walk_back(h, l, Pv(h, it), Append(acc, it))

WalkBack(h, l) == walk_back(h, l, Pv(h, Sent(l)), <<>>)
Range(s) == {s[i] : i \in 1..Len(s)}

\* What a loop "for (it = begin(); it != end(); ++it) *it" yields.  NoEnd ends
\* the sequence of a walk that never meets end().
NoEnd == 0 - 1
Elems(h, l) ==
    LET w == Walk(h, l)
        d == [i \in 1..Len(w.nodes) |-> Dt(h, w.nodes[i])]
    IN  IF w.ok THEN d ELSE Append(d, NoEnd)

\* The real (non-sentinel) nodes reached from the sentinel of l by next_.
RealNodes(h, l) == Range(Walk(h, l).nodes) \cap Nodes

\* The ring of l is well formed: ++ from begin() meets end() after real nodes
\* only, and next_ and prev_ are inverse on the sentinel and on every node of it.
RingOK(h, l) ==
    LET w == Walk(h, l)
        ring == Range(w.nodes) \cup {Sent(l)}
    IN  /\ w.ok
        /\ Range(w.nodes) \subseteq h.live
        /\ \A n \in ring : Pv(h, Nx(h, n)) = n /\ Nx(h, Pv(h, n)) = n

AllRingsOK(h) == \A l \in h.alive : RingOK(h, l)

\* -------------------------------------------------------------- actions
\* An operation as called: its name, the list it is called on, the other list,
\* the value and the iterator passed, and the node of the iterator returned.
\* threw is "no" for a call that returned, and the way obj_construct threw for
\* a call that ended with an exception.
Op(name, l, m, v, it) ==
    [op |-> name, l |-> l, m |-> m, v |-> v, it |-> it, ret |-> Null, threw |-> "no"]

\* What a run can come to: after obj_destruct(nullptr) either nothing has
\* happened or the undefined behaviour has shown.
Outcomes(r) ==
    IF r.nullfree THEN {r, [r EXCEPT !.ub = TRUE, !.badfree = TRUE]} ELSE {r}

\* The result of an operation becomes the state.  The model follows the program
\* while every ring is well formed: a state in which an operation has left a
\* broken ring is reached, and no operation is followed from it.
Commit(result, o) ==
    /\ status = "ok"
    /\ AllRingsOK(H)
    /\ \E r \in Outcomes(result) :
          /\ ~r.oom
          /\ last' = o
          /\ IF r.ub
             THEN status' = (IF r.badfree THEN "badfree" ELSE "ub") /\ UNCHANGED heap
             ELSE IF r.hang
             THEN status' = "hang" /\ UNCHANGED heap
             ELSE /\ SzInRange(r.sz)
                  /\ status' = "ok"
                  /\ next' = r.next /\ prev' = r.prev /\ data' = r.data
                  /\ live' = r.live /\ sz' = r.sz /\ alive' = r.alive

\* The same for a call on whatever the operations before have left, rings that
\* are not well formed included.  On such rings sz_ can grow while nodes are
\* freed through another list: the model follows it up to MaxNodes.
CommitAnyRing(result, o) ==
    /\ status = "ok"
    /\ \E r \in Outcomes(result) :
          /\ ~r.oom
          /\ last' = o
          /\ IF r.ub
             THEN status' = (IF r.badfree THEN "badfree" ELSE "ub") /\ UNCHANGED heap
             ELSE IF r.hang
             THEN status' = "hang" /\ UNCHANGED heap
             ELSE /\ SzInRange(r.sz) /\ \A l \in Lists : r.sz[l] <= MaxNodes
                  /\ status' = "ok"
                  /\ next' = r.next /\ prev' = r.prev /\ data' = r.data
                  /\ live' = r.live /\ sz' = r.sz /\ alive' = r.alive

Init ==
    /\ next = [x \in Addr |-> Null]
    /\ prev = [x \in Addr |-> Null]
    /\ data = [x \in Addr |-> SentinelData]
    /\ live = {}
    /\ sz = [l \in Lists |-> 0]
    /\ alive = {}
    /\ status = "ok"
    /\ last = Op("init", NoList, NoList, 0, Null)

Construct(l) ==
    /\ l \notin alive
    /\ Commit(List_ctor(H, l), Op("List", l, NoList, 0, Null))

PushFront(l, v) ==
    /\ l \in alive
    /\ Commit(push_front(H, l, v), Op("push_front", l, NoList, v, Null))

PushBack(l, v) ==
    /\ l \in alive
    /\ Commit(push_back(H, l, v), Op("push_back", l, NoList, v, Null))

\* pop_front and pop_back require a real node to exist (spec 4.3).
PopFront(l) ==
    /\ l \in alive
    /\ next[Sent(l)] \in live
    /\ Commit(pop_front(H, l), Op("pop_front", l, NoList, 0, Null))

PopBack(l) ==
    /\ l \in alive
    /\ prev[Sent(l)] \in live
    /\ Commit(pop_back(H, l), Op("pop_back", l, NoList, 0, Null))

Destroy(l) ==
    /\ l \in alive
    /\ Commit(List_dtor(H, l), Op("~List", l, NoList, 0, Null))

CopyConstruct(l, m) ==
    /\ l \notin alive /\ m \in alive
    /\ Commit(List_copy_ctor(H, l, m), Op("List(const List&)", l, m, 0, Null))

MoveConstruct(l, m) ==
    /\ l \notin alive /\ m \in alive
    /\ Commit(List_move_ctor(H, l, m), Op("List(List&&)", l, m, 0, Null))

CopyAssign(l, m) ==
    /\ l \in alive /\ m \in alive
    /\ Commit(copy_assign(H, l, m), Op("operator=(const List&)", l, m, 0, Null))

MoveAssign(l, m) ==
    /\ l \in alive /\ m \in alive
    /\ Commit(move_assign(H, l, m), Op("operator=(List&&)", l, m, 0, Null))

Clear(l) ==
    /\ l \in alive
    /\ Commit(clear(H, l), Op("clear", l, NoList, 0, Null))

\* insert takes an iterator into the list: a node ++ reaches from begin(), or end().
Insert(l, it, v) ==
    /\ l \in alive
    /\ it \in Range(Walk(H, l).nodes) \cup {Sent(l)}
    /\ Commit(insert(H, l, it, v),
              [Op("insert", l, NoList, v, it) EXCEPT !.ret = insert_ret(H, l, it, v)])

\* erase takes an iterator at a real node of the list (spec 4.3).
Erase(l, it) ==
    /\ l \in alive
    /\ it \in Range(Walk(H, l).nodes) \cap live
    /\ Commit(erase(H, l, it), Op("erase", l, NoList, 0, it))

MergeCopy(l, m) ==
    /\ l \in alive /\ m \in alive
    /\ Commit(merge_copy(H, l, m), Op("merge(List&)", l, m, 0, Null))

MergeMove(l, m) ==
    /\ l \in alive /\ m \in alive
    /\ Commit(merge_move(H, l, m), Op("merge(List&&)", l, m, 0, Null))

Swap(l, m) ==
    /\ l \in alive /\ m \in alive
    /\ Commit(swap(H, l, m), Op("swap", l, m, 0, Null))

Sort(l, ascending) ==
    /\ l \in alive
    /\ Commit(sort(H, l, ascending), Op("sort", l, NoList, IF ascending THEN 1 ELSE 0, Null))

Reverse(l) ==
    /\ l \in alive
    /\ Commit(reverse(H, l), Op("reverse", l, NoList, 0, Null))

\* The calls in which obj_construct throws.
PushFrontThrows(l, v, how) ==
    /\ l \in alive
    /\ Commit(push_front_throws(H, l, v, how),
              [Op("push_front", l, NoList, v, Null) EXCEPT !.threw = how])

PushBackThrows(l, v, how) ==
    /\ l \in alive
    /\ Commit(push_back_throws(H, l, v, how),
              [Op("push_back", l, NoList, v, Null) EXCEPT !.threw = how])

InsertThrows(l, it, v, how) ==
    /\ l \in alive
    /\ it \in Range(Walk(H, l).nodes) \cup {Sent(l)}
    /\ Commit(insert_throws(H, l, it, v, how),
              [Op("insert", l, NoList, v, it) EXCEPT !.threw = how])

\* merge(List&) of distinct lists in which obj_construct throws at the k-th
\* element of the source.
MergeCopyThrows(l, m, k, how) ==
    /\ l \in alive /\ m \in alive /\ l # m
    /\ k \in 1..Len(Walk(H, m).nodes)
    /\ Commit(merge_copy_throws(H, l, m, k, how),
              [Op("merge(List&)", l, m, k, Null) EXCEPT !.threw = how])

\* push_back, sort, clear and ~List on a list in whatever state the calls
\* before have left it.
PushBackAnyRing(l, v) ==
    /\ l \in alive
    /\ CommitAnyRing(push_back(H, l, v), Op("push_back", l, NoList, v, Null))

SortAnyRing(l, ascending) ==
    /\ l \in alive
    /\ CommitAnyRing(sort(H, l, ascending),
                     Op("sort", l, NoList, IF ascending THEN 1 ELSE 0, Null))

ClearAnyRing(l) ==
    /\ l \in alive
    /\ CommitAnyRing(clear(H, l), Op("clear", l, NoList, 0, Null))

DestroyAnyRing(l) ==
    /\ l \in alive
    /\ CommitAnyRing(List_dtor(H, l), Op("~List", l, NoList, 0, Null))

Next ==
    \/ \E l \in Lists : Construct(l)
    \/ \E l \in Lists : Destroy(l)
    \/ \E l \in Lists, m \in Lists : CopyConstruct(l, m)
    \/ \E l \in Lists, m \in Lists : MoveConstruct(l, m)
    \/ \E l \in Lists, m \in Lists : CopyAssign(l, m)
    \/ \E l \in Lists, m \in Lists : MoveAssign(l, m)
    \/ \E l \in Lists : Clear(l)
    \/ \E l \in Lists, v \in Vals : PushFront(l, v)
    \/ \E l \in Lists, v \in Vals : PushBack(l, v)
    \/ \E l \in Lists : PopFront(l)
    \/ \E l \in Lists : PopBack(l)
    \/ \E l \in Lists, it \in Addr, v \in Vals : Insert(l, it, v)
    \/ \E l \in Lists, it \in Addr : Erase(l, it)
    \/ \E l \in Lists, m \in Lists : MergeCopy(l, m)
    \/ \E l \in Lists, m \in Lists : MergeMove(l, m)
    \/ \E l \in Lists, m \in Lists : Swap(l, m)
    \/ \E l \in Lists, a \in BOOLEAN : Sort(l, a)
    \/ \E l \in Lists : Reverse(l)

Spec == Init /\ [][Next]_vars

NextSplice ==
    \/ \E l \in Lists : Construct(l)
    \/ \E l \in Lists, v \in Vals : PushBack(l, v)
    \/ \E l \in Lists, m \in Lists : MergeCopy(l, m)
    \/ \E l \in Lists, m \in Lists : MergeMove(l, m)

\* The lists that push_back and the two merges build.
SpecSplice == Init /\ [][NextSplice]_vars

NextReverse ==
    \/ \E l \in Lists : Construct(l)
    \/ \E l \in Lists, v \in Vals : PushBack(l, v)
    \/ \E l \in Lists : Reverse(l)

\* The lists that push_back and reverse build.
SpecReverse == Init /\ [][NextReverse]_vars

NextPushPop ==
    \/ \E l \in Lists : Construct(l)
    \/ \E l \in Lists, v \in Vals : PushFront(l, v)
    \/ \E l \in Lists, v \in Vals : PushBack(l, v)
    \/ \E l \in Lists : PopFront(l)
    \/ \E l \in Lists : PopBack(l)

SpecPushPop == Init /\ [][NextPushPop]_vars

NextCopy ==
    \/ \E l \in Lists : Construct(l)
    \/ \E l \in Lists : \E m \in Lists \ {l} : CopyConstruct(l, m)
    \/ \E l \in Lists : \E m \in Lists \ {l} : CopyAssign(l, m)
    \/ \E l \in Lists, v \in Vals : PushBack(l, v)
    \/ \E l \in Lists : PopFront(l)
    \/ \E l \in Lists : Clear(l)
    \/ \E l \in Lists : Destroy(l)

\* Lists built by push_back, copied from one another and then changed.
SpecCopy == Init /\ [][NextCopy]_vars

\* One list, with every node of the allocator at its disposal.
OneList == {CHOOSE l \in Lists : TRUE}

NextInsertErase ==
    \/ \E l \in OneList : Construct(l)
    \/ \E l \in OneList, it \in Addr, v \in Vals : Insert(l, it, v)
    \/ \E l \in OneList, it \in Addr : Erase(l, it)

\* A list built by insert and erase at every position.
SpecInsertErase == Init /\ [][NextInsertErase]_vars

NextAnyRing ==
    \/ \E l \in Lists : Construct(l)
    \/ \E l \in Lists : \E m \in Lists \ {l} : MoveAssign(l, m)
    \/ \E l \in Lists : \E m \in Lists \ {l} : Swap(l, m)
    \/ \E l \in Lists, v \in Vals : PushBackAnyRing(l, v)
    \/ \E l \in Lists, a \in BOOLEAN : SortAnyRing(l, a)
    \/ \E l \in Lists : ClearAnyRing(l)
    \/ \E l \in Lists : DestroyAnyRing(l)

\* Move-assignment and swap of distinct lists, and the calls that then work on
\* the lists they leave.
SpecAnyRing == Init /\ [][NextAnyRing]_vars

NextThrow ==
    \/ \E l \in Lists : Construct(l)
    \/ \E l \in Lists, v \in Vals : PushBack(l, v)
    \/ \E l \in Lists, v \in Vals, how \in Failures : PushFrontThrows(l, v, how)
    \/ \E l \in Lists, v \in Vals, how \in Failures : PushBackThrows(l, v, how)
    \/ \E l \in Lists, it \in Addr, v \in Vals, how \in Failures : InsertThrows(l, it, v, how)
    \/ \E l \in Lists, m \in Lists, k \in 1..MaxNodes, how \in Failures :
          MergeCopyThrows(l, m, k, how)

\* Lists built by push_back, and the calls in which the allocator or the
\* constructor of an element throws.
SpecThrow == Init /\ [][NextThrow]_vars

NextSort ==
    \/ \E l \in Lists : Construct(l)
    \/ \E l \in Lists, v \in Vals : PushBack(l, v)
    \/ \E l \in Lists, a \in BOOLEAN : Sort(l, a)

\* Lists built by push_back and sorted in both directions.
SpecSort == Init /\ [][NextSort]_vars

\* ---------------------------------------------------------------- claims
Reversed(s) == [i \in 1..Len(s) |-> s[Len(s) + 1 - i]]
SelfLinked(h, l) == Nx(h, Sent(l)) = Sent(l) /\ Pv(h, Sent(l)) = Sent(l)
Did(name, l, m) == last.op = name /\ last.l = l /\ last.m = m /\ status = "ok"

\* C1: in every state, the size() of every live list is the number of real
\* (non-sentinel) nodes reached from its sentinel by following next_.
C1_SizeCountsRealNodes ==
    \A l \in alive : sz[l] = Cardinality(RealNodes(H, l))

\* C2: in every state, the links of every live list form one well-formed ring
\* through its own sentinel: next_ from the sentinel comes back to it over real
\* nodes only, and prev_ is the inverse of next_ all along the ring.
C2_RingsWellFormed ==
    \A l \in alive : RingOK(H, l)

\* C3: a move-assignment or move-construction of a from a distinct list b leaves
\* b empty and linked to itself, and a with b's former elements in order and
\* b's former size, whatever b held, also nothing.
C3_MoveTransfers ==
    [][\A l \in Lists : \A m \in Lists \ {l} :
          (Did("operator=(List&&)", l, m)' \/ Did("List(List&&)", l, m)')
          => /\ Elems(H', l) = Elems(H, m)
             /\ sz'[l] = sz[m]
             /\ sz'[m] = 0 /\ SelfLinked(H', m)]_vars

\* C4: a.swap(b) on distinct lists exchanges the two element sequences and the
\* two sizes, and leaves each list's ring through its own sentinel.
C4_SwapExchanges ==
    [][\A l \in Lists : \A m \in Lists \ {l} :
          Did("swap", l, m)'
          => /\ Elems(H', l) = Elems(H, m) /\ Elems(H', m) = Elems(H, l)
             /\ sz'[l] = sz[m] /\ sz'[m] = sz[l]
             /\ RingOK(H', l) /\ RingOK(H', m)]_vars

\* C5: after the copy-merge a.merge(b) of distinct lists, a.size() is a's size
\* before the call plus b.size().
C5_MergeCopyAddsSize ==
    [][\A l \in Lists : \A m \in Lists \ {l} :
          Did("merge(List&)", l, m)' => sz'[l] = sz[l] + sz[m]]_vars

\* C6: every push_front, push_back, pop_front and pop_back on a list built by
\* these calls alone does to the iterated sequence what it does to a reference
\* sequence (prepend, append, drop first, drop last), and size() is the length
\* of that sequence, the pushes minus the pops.
C6_PushPopRefinesSequence ==
    [][\A l \in alive' :
          /\ sz'[l] = Len(Elems(H', l))
          /\ Did("push_front", l, NoList)' => Elems(H', l) = <<last'.v>> \o Elems(H, l)
          /\ Did("push_back", l, NoList)' => Elems(H', l) = Append(Elems(H, l), last'.v)
          /\ Did("pop_front", l, NoList)' => Elems(H', l) = Tail(Elems(H, l))
          /\ Did("pop_back", l, NoList)'
             => Elems(H', l) = SubSeq(Elems(H, l), 1, Len(Elems(H, l)) - 1)
          /\ \A m \in alive \ {l} : last'.l = l => Elems(H', m) = Elems(H, m)]_vars

C6_Witness ==
    \E l \in Lists :
        /\ Did("pop_front", l, NoList)
        /\ Len(Elems(H, l)) = 2 /\ Elems(H, l)[1] # Elems(H, l)[2]

\* C7: sort(true) leaves a non-decreasing and sort(false) a non-increasing
\* sequence, with the same multiset of elements as before the call.
Count(s, v) == Cardinality({i \in 1..Len(s) : s[i] = v})
SortedBy(s, ascending) == \A i \in 1..Len(s) - 1 : lamb_t(ascending, s[i], s[i + 1])
C7_SortSorts ==
    [][\A l \in Lists, a \in BOOLEAN :
          (Did("sort", l, NoList)' /\ last'.v = (IF a THEN 1 ELSE 0))
          => /\ SortedBy(Elems(H', l), a)
             /\ \A v \in 0..MaxVal : Count(Elems(H', l), v) = Count(Elems(H, l), v)]_vars

\* C8: the move-merge a.merge(std::move(b)) of distinct lists, either or both
\* possibly empty, leaves a with its former sequence followed by b's, a.size()
\* the sum of the two former sizes, and b empty and linked to itself.
C8_MergeMoveSplices ==
    [][\A l \in Lists : \A m \in Lists \ {l} :
          Did("merge(List&&)", l, m)'
          => /\ Elems(H', l) = Elems(H, l) \o Elems(H, m)
             /\ sz'[l] = sz[l] + sz[m]
             /\ RingOK(H', l)
             /\ Elems(H', m) = <<>> /\ sz'[m] = 0 /\ SelfLinked(H', m)]_vars

C8_Witness ==
    \E l \in Lists : \E m \in Lists \ {l} :
        /\ Did("merge(List&&)", l, m)
        /\ Len(Elems(H, l)) = 3 /\ Elems(H, l)[1] # Elems(H, l)[3]
        /\ SelfLinked(H, m)

C10_ReverseReverses ==
    [][\A l \in Lists :
          Did("reverse", l, NoList)'
          => /\ Walk(H', l).ok /\ Walk(H', l).nodes = Reversed(Walk(H, l).nodes)
             /\ Elems(H', l) = Reversed(Elems(H, l))
             /\ RingOK(H', l)
             /\ sz'[l] = sz[l] /\ live' = live /\ data' = data
             /\ Elems(reverse(H', l), l) = Elems(H, l)
             /\ Walk(reverse(H', l), l) = Walk(H, l)]_vars

C10_Witness ==
    \E l \in Lists :
        /\ Did("reverse", l, NoList)
        /\ Len(Elems(H, l)) = 3 /\ Elems(H, l)[1] # Elems(H, l)[3]

Without(s, k) == SubSeq(s, 1, k - 1) \o SubSeq(s, k + 1, Len(s))
WithBefore(s, k, x) == SubSeq(s, 1, k - 1) \o <<x>> \o SubSeq(s, k, Len(s))
\* The place of the iterator it in the walk s: Len(s) + 1 for end().
Pos(s, it) ==
    IF \E i \in 1..Len(s) : s[i] = it THEN CHOOSE i \in 1..Len(s) : s[i] = it
    ELSE Len(s) + 1

\* C12: erase(it) at a real node of the list leaves the former sequence
\* without exactly that element (the other nodes in their order), size() one
\* less, the node freed, and the node reached neither by next_ nor by prev_
\* from the sentinel.
C12_EraseRemovesOne ==
    [][\A l \in Lists :
          Did("erase", l, NoList)'
          => LET w == Walk(H, l).nodes
                 k == Pos(w, last'.it)
             IN  /\ last'.it \in Range(w) \cap Nodes
                 /\ Walk(H', l).ok /\ Walk(H', l).nodes = Without(w, k)
                 /\ Elems(H', l) = Without(Elems(H, l), k)
                 /\ sz'[l] = sz[l] - 1
                 /\ live' = live \ {last'.it}
                 /\ WalkBack(H', l).ok
                 /\ WalkBack(H', l).nodes = Reversed(Without(w, k))
                 /\ last'.it \notin Range(Walk(H', l).nodes)
                 /\ last'.it \notin Range(WalkBack(H', l).nodes)
                 /\ RingOK(H', l)]_vars

\* A node of a three-element list erased: two different elements are left.
C12_Witness ==
    \E l \in Lists :
        /\ Did("erase", l, NoList)
        /\ Len(Elems(H, l)) = 2 /\ Elems(H, l)[1] # Elems(H, l)[2]
        /\ last.it \in Nodes \ live

\* C13: in every state between operations, every live real node is on the
\* next_ chain from the sentinel of exactly one live list, and no list's chain
\* passes through the sentinel of another list.
C13_NodesOwnedByOneList ==
    status = "ok"
    => /\ \A n \in live :
             Cardinality({l \in alive : n \in Range(Walk(H, l).nodes)}) = 1
       /\ \A l \in alive : Range(Walk(H, l).nodes) \cap Sentinels = {}

\* C14: in no execution is obj_destruct applied to anything but a live node
\* that the allocator gave: not to a sentinel, not to a node already freed.
C14_DestructOnlyLiveNodes ==
    status # "badfree"

\* C15: a push_front, push_back or insert in which the allocation or the
\* construction of the node fails ends with the exception and nothing else:
\* links, elements and sizes are as before the call, and the set of allocated
\* nodes is the same (no node is leaked).
C15_FailedInsertionChangesNothing ==
    [][(last'.threw # "no" /\ last'.op \in {"push_front", "push_back", "insert"})
          => /\ status' = "ok"
             /\ next' = next /\ prev' = prev /\ data' = data /\ sz' = sz
             /\ live' = live]_vars

\* C16: a copy-merge a.merge(b) that fails at the k-th element of b, k >= 2,
\* leaves a with its former sequence followed by the first k-1 elements of b,
\* on a well-formed ring of live nodes.
C16_FailedMergeKeepsAppended ==
    [][\A l \in Lists : \A m \in Lists \ {l} :
          (last'.op = "merge(List&)" /\ last'.l = l /\ last'.m = m
              /\ last'.threw # "no" /\ last'.v >= 2)
          => /\ status' = "ok"
             /\ Walk(H', l).ok
             /\ Range(Walk(H', l).nodes) \subseteq live'
             /\ Elems(H', l) = Elems(H, l) \o SubSeq(Elems(H, m), 1, last'.v - 1)
             /\ RingOK(H', l)]_vars

\* C17: a copy-assignment or a move-assignment of a list to itself leaves its
\* element sequence and its size as they were, and its ring well formed.
C17_SelfAssignIsNoOp ==
    [][\A l \in Lists :
          (Did("operator=(const List&)", l, l)' \/ Did("operator=(List&&)", l, l)')
          => /\ Elems(H', l) = Elems(H, l)
             /\ sz'[l] = sz[l]
             /\ RingOK(H', l)]_vars

\* C18: sort(true) and sort(false) are stable: of two nodes of the list that
\* hold equal elements, the one that came first before the call comes first
\* after it; the call keeps the nodes of the list and their elements.
C18_SortIsStable ==
    [][\A l \in Lists :
          Did("sort", l, NoList)'
          => LET w == Walk(H, l).nodes
                 x == Walk(H', l).nodes
             IN  /\ Walk(H', l).ok /\ Range(x) = Range(w) /\ Len(x) = Len(w)
                 /\ data' = data
                 /\ \A i \in 1..Len(w) : \A j \in (i + 1)..Len(w) :
                       data[w[i]] = data[w[j]] => Pos(x, w[i]) < Pos(x, w[j])]_vars

\* A sort that moved a node past one of two equal elements: before the call
\* the list was not in order, after it the two equal elements are adjacent.
C18_Witness ==
    \E l \in Lists :
        /\ Did("sort", l, NoList)
        /\ Len(Elems(H, l)) = 3
        /\ Walk(H, l).nodes # <<1, 2, 3>>
        /\ Range(Walk(H, l).nodes) = {1, 2, 3}
        /\ \E i \in 1..2 : Elems(H, l)[i] = Elems(H, l)[i + 1]
        /\ Elems(H, l)[1] # Elems(H, l)[3]

\* C19: insert(it, v) with it at a real node of the list or at end() creates
\* exactly one node, holding v, immediately before the node of it (at end() it
\* appends, at begin() it prepends), keeps the other nodes in their order with
\* their elements, adds one to size(), and returns an iterator at the new node.
C19_InsertPlacesBefore ==
    [][\A l \in Lists :
          Did("insert", l, NoList)'
          => LET w == Walk(H, l).nodes
                 it == last'.it
                 n == last'.ret
                 k == Pos(w, it)
             IN  /\ it \in Range(w) \cup {Sent(l)}
                 /\ n \in Nodes \ live /\ live' = live \cup {n}
                 /\ data'[n] = last'.v
                 /\ \A x \in live : data'[x] = data[x]
                 /\ next'[n] = it /\ prev'[it] = n
                 /\ Walk(H', l).ok /\ Walk(H', l).nodes = WithBefore(w, k, n)
                 /\ Elems(H', l) = WithBefore(Elems(H, l), k, last'.v)
                 /\ (it = Sent(l) => Elems(H', l) = Append(Elems(H, l), last'.v))
                 /\ (it = next[Sent(l)] => Elems(H', l) = <<last'.v>> \o Elems(H, l))
                 /\ sz'[l] = sz[l] + 1
                 /\ RingOK(H', l)]_vars

\* An insert in the middle: the new node is the second of three.
C19_Witness ==
    \E l \in Lists :
        /\ Did("insert", l, NoList)
        /\ Len(Elems(H, l)) = 3
        /\ Walk(H, l).nodes[2] = last.ret /\ Walk(H, l).nodes[3] = last.it
        /\ Elems(H, l)[2] = last.v /\ Elems(H, l)[1] # last.v /\ Elems(H, l)[1] # Elems(H, l)[3]

\* C20: no call of sort runs for ever: its outer loop reaches end() and every
\* inner loop reaches end() or breaks.
C20_SortTerminates ==
    ~(status = "hang" /\ last.op = "sort")

====
